---- MODULE Spec2Model ----
(***************************************************************************)
(* Notes store (notes_backend/app/models.py): the Note entity, the         *)
(* in-memory repository InMemoryNotesRepository with its paginated list,   *)
(* and the interleavings of its unlocked methods.                          *)
(*                                                                         *)
(* Python values are modelled as follows.                                  *)
(*   Optional[T]   a sequence of length <= 1: None is << >>, a value v is  *)
(*                 <<v>>.                                                  *)
(*   dict          _data is an insertion-ordered dict: the sequence `data` *)
(*                 of its keys, each key bound to the Note object of the   *)
(*                 same id in `objs`.                                      *)
(*   Note objects  `objs` is the heap: Note objects are mutable and shared *)
(*                 by reference, the object created with id k is objs[k].  *)
(*   uuid.uuid4()  a draw from Uuids that never repeats an earlier draw    *)
(*                 (a collision of two 122-bit random values is not        *)
(*                 modelled).                                              *)
(*   utcnow()      the system clock, which does not run backwards between  *)
(*                 two reads; any amount of time, zero included, may pass  *)
(*                 between two reads.                                      *)
(***************************************************************************)
EXTENDS Integers, Sequences, FiniteSets, TLC

\* Size of the pool uuid4 draws from: at most MaxNotes notes are ever created.
MaxNotes == 3
\* Last instant of the clock, in sub-second ticks.
MaxClock == 2
\* Number of sub-second ticks in a second (10^6 microseconds, scaled down).
SubSecond == 2
\* Pages MinPage..MaxPage and page sizes MinPageSize..MaxPageSize are listed;
\* MinPage and MinPageSize are MaxPage and MaxPageSize mirrored below zero.
MaxPage == 4
MaxPageSize == 3

None == << >>
Some(v) == <<v>>

Uuids == 1..MaxNotes
Titles == {"t1", "t2"}
Contents == {"c1", "c2"}
Pages == (1 - MaxPage)..MaxPage
PageSizes == (0 - MaxPageSize + 1)..MaxPageSize

VARIABLES
  data,      \* InMemoryNotesRepository._data: the keys, in insertion order
  objs,      \* the Note objects, by id
  clock,     \* the system clock at its last read
  unused,    \* the values uuid4 has not returned yet
  issued,    \* the ids create has returned
  deleted,   \* the ids for which delete has returned True
  last,      \* the last call on the store: operation, arguments, result
  pc,        \* position of each thread in its method (interleaved runs)
  local,     \* local variables of each thread (interleaved runs)
  http       \* the last HTTP request and its response (runs of the routes)

vars == <<data, objs, clock, unused, issued, deleted, last, pc, local, http>>

(***************************************************************************)
(* Note                                                                    *)
(***************************************************************************)

\* datetime.isoformat() + "Z": the fraction is printed only when it is not 0.
now_iso(t) ==
  [sec |-> t \div SubSecond,
   frac |-> IF t % SubSecond = 0 THEN None ELSE Some(t % SubSecond),
   zone |-> "Z"]

\* The instant an ISO text denotes.
ParseIso(s) ==
  s.sec * SubSecond + (IF s.frac = None THEN 0 ELSE s.frac[1])

\* A constructor that stores the content as the title and the title as
\* the content.
new_swapped(id, title, content, t) ==
  [id |-> id, title |-> content, content |-> title,
   created_at |-> now_iso(t), updated_at |-> now_iso(t)]

\* Note.new: a fresh id, the title and content verbatim, both stamps = now.
new(id, title, content, t) ==
  [id |-> id, title |-> title, content |-> content,
   created_at |-> now_iso(t), updated_at |-> now_iso(t)]

\* A generator that avoids only the ids of the notes now stored.
uuid4_reuse == Uuids \ {data[i] : i \in DOMAIN data}

\* The values uuid4 may return next.
uuid4 == unused

\* A clock that may be set back between two reads.
utcnow_set_back == 0..MaxClock

\* The instants utcnow may return next.
utcnow == clock..MaxClock

(***************************************************************************)
(* Python dict and list primitives                                         *)
(***************************************************************************)

Min(a, b) == IF a < b THEN a ELSE b
Max(a, b) == IF a > b THEN a ELSE b

\* key in d
DictHas(d, k) == \E i \in DOMAIN d : d[i] = k

\* A binding that moves an existing key to the end.
DictSet_move_to_end(d, k) == Append(SelectSeq(d, LAMBDA x : x # k), k)

\* d[k] = v: an existing key keeps its place, a new key goes last.
DictSet(d, k) == IF DictHas(d, k) THEN d ELSE Append(d, k)

\* del d[k]
DictDel(d, k) == SelectSeq(d, LAMBDA x : x # k)

\* A slice bound as Python normalises it: a negative bound counts from the
\* end, and the result is clamped to 0..n.
SliceIndex(i, n) == IF i < 0 THEN Max(i + n, 0) ELSE Min(i, n)

\* s[start:end]
PySlice(s, start, end) ==
  LET lo == SliceIndex(start, Len(s))
      hi == SliceIndex(end, Len(s))
  IN  IF lo < hi THEN SubSeq(s, lo + 1, hi) ELSE << >>

(***************************************************************************)
(* InMemoryNotesRepository                                                 *)
(***************************************************************************)

\* list(self._data.values())
values == [i \in 1..Len(data) |-> objs[data[i]][1]]

\* Python's a // b: ZeroDivisionError when b = 0, else the floor of a / b.
floordiv(a, b) ==
  IF b = 0 THEN [raised |-> TRUE, value |-> 0]
  ELSE IF b > 0 THEN [raised |-> FALSE, value |-> a \div b]
  ELSE [raised |-> FALSE, value |-> (0 - a) \div (0 - b)]

\* total // page_size: the last, partial page is not counted.
total_pages_floor(total, page_size) ==
  IF page_size > 0 THEN floordiv(total, page_size)
  ELSE [raised |-> FALSE, value |-> 1]

\* The division without its page_size > 0 guard.
total_pages_unguarded(total, page_size) ==
  floordiv(total + page_size - 1, page_size)

\* (total + page_size - 1) // page_size if page_size > 0 else 1
total_pages(total, page_size) ==
  IF page_size > 0 THEN floordiv(total + page_size - 1, page_size)
  ELSE [raised |-> FALSE, value |-> 1]

\* The slice of a list that counts its pages from 0.
page_items_from_zero(items, page, page_size) ==
  PySlice(items, page * page_size, page * page_size + page_size)

\* The slice list returns.
page_items(items, page, page_size) ==
  LET start == (page - 1) * page_size
      end   == start + page_size
  IN  PySlice(items, start, end)

\* A meta whose next_page is set on the last page too.
meta_next_on_last(total, page, page_size) ==
  LET tp == total_pages(total, page_size).value
  IN  [total         |-> total,
       total_pages   |-> tp,
       first_page    |-> IF total > 0 THEN 1 ELSE 0,
       last_page     |-> IF total > 0 THEN tp ELSE 0,
       page          |-> page,
       previous_page |-> IF page > 1 THEN Some(page - 1) ELSE None,
       next_page     |-> IF page <= tp THEN Some(page + 1) ELSE None]

\* The meta list returns.
meta(total, page, page_size) ==
  LET tp == total_pages(total, page_size).value
  IN  [total         |-> total,
       total_pages   |-> tp,
       first_page    |-> IF total > 0 THEN 1 ELSE 0,
       last_page     |-> IF total > 0 THEN tp ELSE 0,
       page          |-> page,
       previous_page |-> IF page > 1 THEN Some(page - 1) ELSE None,
       next_page     |-> IF page < tp THEN Some(page + 1) ELSE None]

\* What list(page, page_size) does in the current state: it raises, or it
\* returns items and meta.
ListResult(page, page_size) ==
  [raised |-> total_pages(Len(values), page_size).raised,
   items  |-> page_items(values, page, page_size),
   meta   |-> meta(Len(values), page, page_size)]

\* A lookup that falls back to the first note when the key is unknown.
GetResult_fallback(note_id) ==
  IF DictHas(data, note_id) THEN objs[note_id]
  ELSE IF data # << >> THEN objs[data[1]] ELSE None

\* self._data.get(note_id): the Note bound to the key, or None.
GetResult(note_id) == IF DictHas(data, note_id) THEN objs[note_id] ELSE None

\* note.title = title without the test for None.
SetTitle_unconditional(note, title) ==
  [note EXCEPT !.title = IF title # None THEN title[1] ELSE "None"]

\* The assignments of update to the fields of a note.
SetTitle(note, title) ==
  IF title # None THEN [note EXCEPT !.title = title[1]] ELSE note
SetContent(note, content) ==
  IF content # None THEN [note EXCEPT !.content = content[1]] ELSE note
\* An update that leaves updated_at as it is.
SetUpdatedAt_skipped(note, t) == note

SetUpdatedAt(note, t) == [note EXCEPT !.updated_at = now_iso(t)]

\* The record of a call: its operation, its arguments (those it does not take
\* are None or 0) and what it returned: ret is the note or the items returned,
\* ok tells a Note from None and is delete's boolean.
Call(op, note_id, title, content, page, page_size, ok, ret, m) ==
  [op |-> op, note_id |-> note_id, title |-> title, content |-> content,
   page |-> page, page_size |-> page_size, ok |-> ok, ret |-> ret, meta |-> m]

NoCall == Call("none", 0, None, None, 0, 0, FALSE, << >>, None)

\* The threads of an interleaved run: one in update, one in delete, one
\* reading. They are idle in a sequential run.
Threads == {"U", "D", "R"}
NoLocal == [op |-> "none", note_id |-> 0, title |-> None, content |-> None,
            refs |-> << >>, stamp |-> None, seen |-> << >>, ok |-> FALSE]

\* InMemoryNotesRepository(): an empty dict.
EmptyStore ==
  /\ data = << >>
  /\ objs = [k \in Uuids |-> None]
  /\ issued = {}
  /\ deleted = {}
  /\ last = NoCall
  /\ pc = [t \in Threads |-> "idle"]
  /\ local = [t \in Threads |-> NoLocal]

list(page, page_size) ==
  LET r == ListResult(page, page_size)
  IN  /\ last' = IF r.raised
                 THEN Call("list", 0, None, None, page, page_size, FALSE,
                           << >>, None)
                 ELSE Call("list", 0, None, None, page, page_size, TRUE,
                           r.items, Some(r.meta))
      /\ UNCHANGED <<data, objs, clock, unused, issued, deleted, pc, local>>

get(note_id) ==
  LET r == GetResult(note_id)
  IN  /\ last' = Call("get", note_id, None, None, 0, 0, r # None, r, None)
      /\ UNCHANGED <<data, objs, clock, unused, issued, deleted, pc, local>>

create(title, content) ==
  \E id \in uuid4, t \in utcnow :
    LET note == new(id, title, content, t)
    IN  /\ unused' = unused \ {id}
        /\ clock' = t
        /\ objs' = [objs EXCEPT ![note.id] = Some(note)]
        /\ data' = DictSet(data, note.id)
        /\ issued' = issued \cup {note.id}
        /\ last' = Call("create", note.id, Some(title), Some(content), 0, 0,
                        TRUE, Some(note), None)
        /\ UNCHANGED <<deleted, pc, local>>

\* An update that binds the key before it tests what the lookup gave.
update_binds_first(note_id, title, content) ==
  LET r == GetResult(note_id)
  IN  IF r = None
      THEN /\ data' = DictSet(data, note_id)
           /\ last' = Call("update", note_id, title, content, 0, 0, FALSE,
                           None, None)
           /\ UNCHANGED <<objs, clock, unused, issued, deleted, pc, local>>
      ELSE \E t \in utcnow :
             LET note == SetUpdatedAt(
                           SetContent(SetTitle(r[1], title), content), t)
             IN  /\ clock' = t
                 /\ objs' = [objs EXCEPT ![note_id] = Some(note)]
                 /\ data' = DictSet(data, note_id)
                 /\ last' = Call("update", note_id, title, content, 0, 0,
                                 TRUE, Some(note), None)
                 /\ UNCHANGED <<unused, issued, deleted, pc, local>>

update(note_id, title, content) ==
  LET r == GetResult(note_id)
  IN  IF r = None
      THEN /\ last' = Call("update", note_id, title, content, 0, 0, FALSE,
                           None, None)
           /\ UNCHANGED <<data, objs, clock, unused, issued, deleted, pc, local>>
      ELSE \E t \in utcnow :
             LET note == SetUpdatedAt(
                           SetContent(SetTitle(r[1], title), content), t)
             IN  /\ clock' = t
                 /\ objs' = [objs EXCEPT ![note_id] = Some(note)]
                 /\ data' = DictSet(data, note_id)
                 /\ last' = Call("update", note_id, title, content, 0, 0,
                                 TRUE, Some(note), None)
                 /\ UNCHANGED <<unused, issued, deleted, pc, local>>

\* In a sequential run the Note removed from _data is referenced by no one
\* any more and is reclaimed.
delete(note_id) ==
  IF DictHas(data, note_id)
  THEN /\ data' = DictDel(data, note_id)
       /\ objs' = [objs EXCEPT ![note_id] = None]
       /\ deleted' = deleted \cup {note_id}
       /\ last' = Call("delete", note_id, None, None, 0, 0, TRUE, None, None)
       /\ UNCHANGED <<clock, unused, issued, pc, local>>
  ELSE /\ last' = Call("delete", note_id, None, None, 0, 0, FALSE, None, None)
       /\ UNCHANGED <<data, objs, clock, unused, issued, deleted, pc, local>>

OptTitles == {None} \cup {Some(x) : x \in Titles}
OptContents == {None} \cup {Some(x) : x \in Contents}

(***************************************************************************)
(* Spec: sequential calls of get, create, update and delete with every     *)
(* title, content and instant, on a store that creates two notes.          *)
(***************************************************************************)

\* No request yet, and none in the runs that call the store directly.
NoRequest == [method |-> "none", note_id |-> 0, status |-> 0, called |-> FALSE]

Init ==
  /\ EmptyStore
  /\ clock = 0
  /\ unused = {1, 2}
  /\ http = NoRequest

Next ==
  \/ \E note_id \in Uuids : get(note_id) /\ UNCHANGED http
  \/ \E title \in Titles, content \in Contents :
       create(title, content) /\ UNCHANGED http
  \/ \E note_id \in Uuids, title \in OptTitles, content \in OptContents :
       update(note_id, title, content) /\ UNCHANGED http
  \/ \E note_id \in Uuids : delete(note_id) /\ UNCHANGED http

Spec == Init /\ [][Next]_vars

(***************************************************************************)
(* ListSpec: sequential calls of create, delete and list with every page   *)
(* and page size, on a store that creates MaxNotes notes, all of them with *)
(* the same title and content at the same instant.                         *)
(***************************************************************************)

ListInit ==
  /\ EmptyStore
  /\ clock = MaxClock
  /\ unused = Uuids
  /\ http = NoRequest

ListNext ==
  \/ \E page \in Pages, page_size \in PageSizes :
       list(page, page_size) /\ UNCHANGED http
  \/ create("t1", "c1") /\ UNCHANGED http
  \/ \E note_id \in Uuids : delete(note_id) /\ UNCHANGED http

ListSpec == ListInit /\ [][ListNext]_vars

(***************************************************************************)
(* OrderSpec: sequential calls of create, update of the title, delete and  *)
(* list of the first pages at every instant, on a store that creates three *)
(* notes.                                                                  *)
(***************************************************************************)

OrderInit ==
  /\ EmptyStore
  /\ clock = 0
  /\ unused = {1, 2, 3}
  /\ http = NoRequest

OrderNext ==
  \/ \E page \in {1, 2}, page_size \in {2, MaxNotes} :
       list(page, page_size) /\ UNCHANGED http
  \/ create("t1", "c1") /\ UNCHANGED http
  \/ \E note_id \in Uuids, title \in {None, Some("t2")} :
       update(note_id, title, None) /\ UNCHANGED http
  \/ \E note_id \in Uuids : delete(note_id) /\ UNCHANGED http

OrderSpec == OrderInit /\ [][OrderNext]_vars

(***************************************************************************)
(* ConcSpec: one update, one delete and one read (get or list, then the    *)
(* serialisation of what it returned) run in three threads on a store of   *)
(* two notes. The repository takes no lock, so the threads interleave at   *)
(* each read and write of _data and of a Note's fields.                    *)
(***************************************************************************)

\* The notes of the store when the threads start.
InitNote(k) == new(k, "t1", "c1", 0)

ConcInit ==
  /\ data = <<1, 2>>
  /\ objs = [k \in Uuids |-> IF k \in {1, 2} THEN Some(InitNote(k)) ELSE None]
  /\ issued = {1, 2}
  /\ deleted = {}
  /\ unused = Uuids \ {1, 2}
  /\ clock = 0
  /\ last = NoCall
  /\ pc = [t \in Threads |-> "start"]
  /\ local = [t \in Threads |-> NoLocal]
  /\ http = NoRequest

Goto(t, label) == pc' = [pc EXCEPT ![t] = label] /\ UNCHANGED http

\* update(note_id, title, content) is called.
update_call(note_id, title, content) ==
  /\ pc["U"] = "start"
  /\ local' = [local EXCEPT !["U"] = [NoLocal EXCEPT !.op = "update",
                  !.note_id = note_id, !.title = title, !.content = content]]
  /\ Goto("U", "get")
  /\ UNCHANGED <<data, objs, clock, unused, issued, deleted, last>>

\* note = self._data.get(note_id); if not note: return None
update_get ==
  /\ pc["U"] = "get"
  /\ IF DictHas(data, local["U"].note_id)
     THEN /\ local' = [local EXCEPT !["U"].refs = <<local["U"].note_id>>]
          /\ Goto("U", "title")
     ELSE /\ local' = [local EXCEPT !["U"].ok = FALSE]
          /\ Goto("U", "done")
  /\ UNCHANGED <<data, objs, clock, unused, issued, deleted, last>>

\* if title is not None: note.title = title
update_title ==
  /\ pc["U"] = "title"
  /\ LET ref == local["U"].refs[1]
     IN  objs' = [objs EXCEPT ![ref] =
                    Some(SetTitle(objs[ref][1], local["U"].title))]
  /\ Goto("U", "content")
  /\ UNCHANGED <<data, clock, unused, issued, deleted, last, local>>

\* if content is not None: note.content = content
update_content ==
  /\ pc["U"] = "content"
  /\ LET ref == local["U"].refs[1]
     IN  objs' = [objs EXCEPT ![ref] =
                    Some(SetContent(objs[ref][1], local["U"].content))]
  /\ Goto("U", "stamp")
  /\ UNCHANGED <<data, clock, unused, issued, deleted, last, local>>

\* note.updated_at = Note.now_iso()
update_stamp ==
  /\ pc["U"] = "stamp"
  /\ \E t \in utcnow :
       LET ref == local["U"].refs[1]
       IN  /\ clock' = t
           /\ objs' = [objs EXCEPT ![ref] = Some(SetUpdatedAt(objs[ref][1], t))]
           /\ local' = [local EXCEPT !["U"].stamp = Some(t)]
  /\ Goto("U", "store")
  /\ UNCHANGED <<data, unused, issued, deleted, last>>

\* self._data[note_id] = note; return note
update_store ==
  /\ pc["U"] = "store"
  /\ data' = DictSet(data, local["U"].note_id)
  /\ local' = [local EXCEPT !["U"].ok = TRUE]
  /\ Goto("U", "done")
  /\ UNCHANGED <<objs, clock, unused, issued, deleted, last>>

\* delete(note_id) is called.
delete_call(note_id) ==
  /\ pc["D"] = "start"
  /\ local' = [local EXCEPT !["D"] = [NoLocal EXCEPT !.op = "delete",
                  !.note_id = note_id]]
  /\ Goto("D", "test")
  /\ UNCHANGED <<data, objs, clock, unused, issued, deleted, last>>

\* if note_id in self._data: ... return False
delete_test ==
  /\ pc["D"] = "test"
  /\ IF DictHas(data, local["D"].note_id)
     THEN Goto("D", "del") /\ UNCHANGED local
     ELSE Goto("D", "done") /\ local' = [local EXCEPT !["D"].ok = FALSE]
  /\ UNCHANGED <<data, objs, clock, unused, issued, deleted, last>>

\* del self._data[note_id]; return True
delete_del ==
  /\ pc["D"] = "del"
  /\ data' = DictDel(data, local["D"].note_id)
  /\ local' = [local EXCEPT !["D"].ok = TRUE]
  /\ Goto("D", "done")
  /\ UNCHANGED <<objs, clock, unused, issued, deleted, last>>

\* get(note_id) or list() is called and returns the Note or Notes of _data:
\* references to the objects, not copies.
reader_call(op, note_id) ==
  /\ pc["R"] = "start"
  /\ local' = [local EXCEPT !["R"] = [NoLocal EXCEPT !.op = op,
                  !.note_id = note_id,
                  !.refs = IF op = "list" THEN data
                           ELSE IF DictHas(data, note_id) THEN <<note_id>>
                           ELSE << >>,
                  !.ok = op = "list" \/ DictHas(data, note_id)]]
  /\ Goto("R", "dump")
  /\ UNCHANGED <<data, objs, clock, unused, issued, deleted, last>>

\* NoteSchema().dump(note): the caller reads the fields of what it was given.
reader_dump ==
  /\ pc["R"] = "dump"
  /\ local' = [local EXCEPT !["R"].seen =
                 [i \in 1..Len(local["R"].refs) |-> objs[local["R"].refs[i]][1]]]
  /\ Goto("R", "done")
  /\ UNCHANGED <<data, objs, clock, unused, issued, deleted, last>>

ConcNext ==
  \/ \E note_id \in {1, 2}, title \in OptTitles, content \in OptContents :
       update_call(note_id, title, content)
  \/ update_get
  \/ update_title
  \/ update_content
  \/ update_stamp
  \/ update_store
  \/ \E note_id \in {1, 2} : delete_call(note_id)
  \/ delete_test
  \/ delete_del
  \/ \E op \in {"get", "list"}, note_id \in {1, 2} : reader_call(op, note_id)
  \/ reader_dump

ConcSpec == ConcInit /\ [][ConcNext]_vars

(***************************************************************************)
(* The routes (notes_backend/app/routes/notes.py) and their schemas        *)
(* (schemas.py). A dict of request arguments is a record of Optionals: a   *)
(* key that is absent is None. A request a schema rejects is answered by   *)
(* flask-smorest with 422 before the view function runs.                   *)
(***************************************************************************)

\* PaginationQuerySchema: load_default of page and of page_size, and the
\* range of page_size.
DefaultPage == 1
DefaultPageSize == 20
MinPageSize == 1
MaxPageSizeAllowed == 100
\* NoteCreateSchema / NoteUpdateSchema: validate.Length of title and content.
MinLength == 1
MaxTitleLength == 200

\* A title of MaxTitleLength + 1 characters.
LongTitle == "xxxxxxxxxxxxxxxxxxxxxxxxxxxxxxxxxxxxxxxxxxxxxxxxxxxxxxxxxxxxxxxxxxxxxxxxxxxxxxxxxxxxxxxxxxxxxxxxxxxxxxxxxxxxxxxxxxxxxxxxxxxxxxxxxxxxxxxxxxxxxxxxxxxxxxxxxxxxxxxxxxxxxxxxxxxxxxxxxxxxxxxxxxxxxxxxxxxxxxxxx"

\* validate.Length(min=1, max=200) and validate.Length(min=1)
TitleOk(title) == Len(title) >= MinLength /\ Len(title) <= MaxTitleLength
ContentOk(content) == Len(content) >= MinLength

\* PaginationQuerySchema accepts the query: page is any integer, page_size
\* is absent or within its range.
PaginationQuerySchema(args) ==
  args.page_size = None
    \/ (args.page_size[1] >= MinPageSize
        /\ args.page_size[1] <= MaxPageSizeAllowed)

\* NoteCreateSchema accepts the payload: both fields required and valid.
NoteCreateSchema(payload) ==
  /\ payload.title # None /\ TitleOk(payload.title[1])
  /\ payload.content # None /\ ContentOk(payload.content[1])

\* NoteUpdateSchema accepts the payload: each field absent or valid.
NoteUpdateSchema(payload) ==
  /\ payload.title = None \/ TitleOk(payload.title[1])
  /\ payload.content = None \/ ContentOk(payload.content[1])

\* A view that never takes a payload for empty.
not_payload_never(payload) == FALSE

\* not payload: the loaded dict has no key.
not_payload(payload) == payload.title = None /\ payload.content = None

\* A delete view that answers 204 whatever the store returned.
delete_status_always_204(removed) == 204

\* NoteItem.delete: 204 when the store removed a note, else 404.
delete_status(removed) == IF removed THEN 204 ELSE 404

\* The response to a request answered without a call of the store.
Answer(method, note_id, status) ==
  /\ http' = [method |-> method, note_id |-> note_id, status |-> status,
              called |-> FALSE]
  /\ UNCHANGED <<data, objs, clock, unused, issued, deleted, last, pc, local>>

\* The response to a request answered after a call of the store.
Called(method, note_id, status) ==
  http' = [method |-> method, note_id |-> note_id, status |-> status,
           called |-> TRUE]

\* GET /api/notes/
NotesCollection_get(args) ==
  IF ~PaginationQuerySchema(args)
  THEN Answer("GET list", 0, 422)
  ELSE LET page == IF args.page = None THEN DefaultPage ELSE args.page[1]
           page_size == IF args.page_size = None THEN DefaultPageSize
                        ELSE args.page_size[1]
       IN  /\ list(page, page_size)
           /\ Called("GET list", 0, 200)

\* POST /api/notes/
NotesCollection_post(payload) ==
  IF ~NoteCreateSchema(payload)
  THEN Answer("POST", 0, 422)
  ELSE /\ create(payload.title[1], payload.content[1])
       /\ Called("POST", 0, 201)

\* GET /api/notes/<note_id>
NoteItem_get(note_id) ==
  /\ get(note_id)
  /\ Called("GET", note_id, IF GetResult(note_id) = None THEN 404 ELSE 200)

\* PATCH /api/notes/<note_id>
NoteItem_patch(payload, note_id) ==
  IF ~NoteUpdateSchema(payload)
  THEN Answer("PATCH", note_id, 422)
  ELSE IF not_payload(payload)
  THEN Answer("PATCH", note_id, 400)
  ELSE /\ update(note_id, payload.title, payload.content)
       /\ Called("PATCH", note_id,
                 IF GetResult(note_id) = None THEN 404 ELSE 200)

\* DELETE /api/notes/<note_id>
NoteItem_delete(note_id) ==
  /\ delete(note_id)
  /\ Called("DELETE", note_id, delete_status(DictHas(data, note_id)))

(***************************************************************************)
(* ApiSpec: sequential requests to the five routes, with queries and       *)
(* payloads the schemas accept and reject, on a store that creates two     *)
(* notes; the clock has one tick left.                                     *)
(***************************************************************************)

QueryPages == {None, Some(0 - 1), Some(0), Some(2)}
QueryPageSizes ==
  {None, Some(MinPageSize - 1), Some(MaxPageSizeAllowed),
   Some(MaxPageSizeAllowed + 1)}
PostTitles == {None, Some(""), Some("t1"), Some(LongTitle)}
PostContents == {None, Some(""), Some("c1")}
PatchTitles == {None, Some(""), Some("t2"), Some(LongTitle)}
PatchContents == {None, Some(""), Some("c2")}

ApiInit ==
  /\ EmptyStore
  /\ clock = MaxClock - 1
  /\ unused = {1, 2}
  /\ http = NoRequest

ApiNext ==
  \/ \E page \in QueryPages, page_size \in QueryPageSizes :
       NotesCollection_get([page |-> page, page_size |-> page_size])
  \/ \E title \in PostTitles, content \in PostContents :
       NotesCollection_post([title |-> title, content |-> content])
  \/ \E note_id \in Uuids : NoteItem_get(note_id)
  \/ \E note_id \in Uuids, title \in PatchTitles,
        content \in PatchContents :
       NoteItem_patch([title |-> title, content |-> content], note_id)
  \/ \E note_id \in Uuids : NoteItem_delete(note_id)

ApiSpec == ApiInit /\ [][ApiNext]_vars

(***************************************************************************)
(* Properties of the sequential store (Spec)                               *)
(***************************************************************************)

Keys == {data[i] : i \in DOMAIN data}

\* C1: every id create returns differs from every id create has returned
\* before, those of notes deleted since included: ids are pairwise distinct
\* and never reused.
C1_IdsNeverReused ==
  [][last'.op = "create" => last'.note_id \notin issued]_vars

\* A create that follows a successful delete.
C1_Witness ==
  /\ last.op = "create"
  /\ deleted # {}
  /\ last.note_id \notin deleted

\* C5: get, update and delete of an id that create never returned, or that
\* was deleted, report not-found (None, None and False) and leave the
\* collection as it is; so does a get that follows a successful delete.
C5_NotFound ==
  [][(/\ last'.op \in {"get", "update", "delete"}
      /\ (last'.note_id \notin issued \/ last'.note_id \in deleted))
     => (/\ last'.ok = FALSE
         /\ last'.ret = None
         /\ Len(data') = Len(data)
         /\ data' = data /\ objs' = objs)]_vars

\* A delete of an id deleted before returns False while another note is stored.
C5_Witness ==
  /\ last.op = "delete"
  /\ last.note_id \in deleted
  /\ ~last.ok
  /\ Len(data) = 1

\* C6: a successful update overwrites exactly the fields supplied, keeps the
\* others, keeps id and created_at, and changes no other note nor the keys.
C6_UpdateFrame ==
  [][(last'.op = "update" /\ last'.ok)
     => LET k == last'.note_id
        IN  /\ objs[k] # None /\ objs'[k] # None
            /\ objs'[k][1].title =
                 (IF last'.title = None THEN objs[k][1].title
                  ELSE last'.title[1])
            /\ objs'[k][1].content =
                 (IF last'.content = None THEN objs[k][1].content
                  ELSE last'.content[1])
            /\ objs'[k][1].id = objs[k][1].id
            /\ objs'[k][1].created_at = objs[k][1].created_at
            /\ \A j \in Uuids \ {k} : objs'[j] = objs[j]
            /\ data' = data
            /\ last'.ret = objs'[k]]_vars

\* An update of the title alone, of the first of two notes, whose content is
\* not the one it was created with.
C6_Witness ==
  /\ last.op = "update" /\ last.ok
  /\ last.title = Some("t2") /\ last.content = None
  /\ Len(data) = 2 /\ last.note_id = data[1]
  /\ objs[last.note_id][1].content = "c2"

\* No note's updated_at denotes an instant before its created_at.
C7_Order ==
  \A k \in Uuids :
    objs[k] # None =>
      ParseIso(objs[k][1].updated_at) >= ParseIso(objs[k][1].created_at)

\* A successful update does not move the note's updated_at back.
C7_Step ==
  (last'.op = "update" /\ last'.ok)
    => ParseIso(objs'[last'.note_id][1].updated_at)
         >= ParseIso(objs[last'.note_id][1].updated_at)

C11_NotFoundNoMutation ==
  [][(last'.op \in {"update", "delete"} /\ ~last'.ok)
     => (/\ data' = data
         /\ objs' = objs
         /\ Keys' = Keys
         /\ \A k \in Keys : GetResult(k)' = GetResult(k))]_vars

\* An update with a title and a content, of an id deleted before, has
\* reported not-found while another note is stored.
C11_Witness ==
  /\ last.op = "update" /\ ~last.ok
  /\ last.title # None /\ last.content # None
  /\ last.note_id \in deleted
  /\ Len(data) = 1

\* C12: a successful update leaves in updated_at the text of the instant the
\* clock showed at the call, whether or not a field was supplied or changed,
\* and returns the note stored under the id.
C12_UpdateRefreshes ==
  [][(last'.op = "update" /\ last'.ok)
     => LET k == last'.note_id
        IN  /\ objs'[k] # None
            /\ objs'[k][1].updated_at = now_iso(clock')
            /\ clock' >= clock
            /\ DictHas(data', k)
            /\ last'.ret = objs'[k]]_vars

\* An update with no field has moved updated_at, and one whose title and
\* content are those the note has would do the same.
C12_Witness ==
  /\ last.op = "update" /\ last.ok
  /\ last.title = None /\ last.content = None
  /\ ParseIso(objs[last.note_id][1].updated_at)
       > ParseIso(objs[last.note_id][1].created_at)

(***************************************************************************)
(* Properties of list (ListSpec)                                           *)
(***************************************************************************)

RECURSIVE ConcatPages(_, _, _)
\* The items of pages p..n of size page_size, one after the other.
ConcatPages(p, n, page_size) ==
  IF p > n THEN << >>
  ELSE ListResult(p, page_size).items \o ConcatPages(p + 1, n, page_size)

\* The least n with n * page_size >= total.
Ceil(total, page_size) ==
  CHOOSE n \in 0..total :
    /\ n * page_size >= total
    /\ \A m \in 0..(n - 1) : m * page_size < total

\* C4: for every page_size > 0, pages 1..total_pages one after the other are
\* the whole collection in the store's order, each note exactly once.
C4_PaginationComplete ==
  \A page_size \in 1..MaxPageSize :
    LET n   == ListResult(1, page_size).meta.total_pages
        all == ConcatPages(1, n, page_size)
    IN  /\ all = values
        /\ Len(all) = Len(data)
        /\ \A i \in DOMAIN all : all[i].id = data[i]
        /\ \A i, j \in DOMAIN all : i # j => all[i].id # all[j].id

\* The second, partial page of three notes listed two by two.
C4_Witness ==
  /\ last.op = "list" /\ last.page = 2 /\ last.page_size = 2
  /\ Len(data) = 3
  /\ last.ret = <<values[3]>>

\* C8: list returns the notes from offset (page-1)*page_size on, page_size of
\* them at most, and nothing when the offset is below 0 or not below total.
C8_SliceFromOffset ==
  \A page \in Pages, page_size \in PageSizes :
    LET r      == ListResult(page, page_size)
        total  == Len(values)
        offset == (page - 1) * page_size
    IN  /\ ~r.raised
        /\ r.items = IF offset < 0 \/ offset >= total THEN << >>
                     ELSE SubSeq(values, offset + 1,
                                 Min(offset + page_size, total))

\* C9: for page_size > 0 the meta of list is: total, the number of notes;
\* total_pages, the ceiling of total / page_size; first_page and last_page,
\* 1 and total_pages, or 0 and 0 of an empty store; page, as asked;
\* previous_page and next_page, page - 1 if page > 1 and page + 1 if
\* page < total_pages, else None.
C9_Meta ==
  \A page \in Pages, page_size \in 1..MaxPageSize :
    LET r     == ListResult(page, page_size)
        m     == r.meta
        total == Len(data)
    IN  /\ ~r.raised
        /\ m.total = total
        /\ m.total_pages = Ceil(total, page_size)
        /\ (total = 0 => m.total_pages = 0)
        /\ m.first_page = (IF total > 0 THEN 1 ELSE 0)
        /\ m.last_page = (IF total > 0 THEN Ceil(total, page_size) ELSE 0)
        /\ m.page = page
        /\ m.previous_page = (IF page > 1 THEN Some(page - 1) ELSE None)
        /\ m.next_page =
             (IF page < Ceil(total, page_size) THEN Some(page + 1) ELSE None)

\* Three notes listed one by one: page 2 is the second note, between pages 1
\* and 3.
C9_Witness ==
  /\ last.op = "list" /\ last.page = 2 /\ last.page_size = 1
  /\ Len(data) = 3
  /\ last.ret = <<values[2]>>
  /\ last.meta[1].total_pages = 3
  /\ last.meta[1].previous_page = Some(1)
  /\ last.meta[1].next_page = Some(3)

\* C10: list with page_size <= 0 raises nothing, whatever the page and the
\* store, and reports total_pages = 1.
C10_DegeneratePageSize ==
  \A page \in Pages, page_size \in PageSizes :
    page_size <= 0 =>
      /\ ~ListResult(page, page_size).raised
      /\ ListResult(page, page_size).meta.total_pages = 1

\* list with page_size = 0 has returned, of a store of two notes.
C10_Witness ==
  /\ last.op = "list" /\ last.page_size = 0 /\ last.ok
  /\ Len(data) = 2
  /\ last.meta[1].total_pages = 1

(***************************************************************************)
(* Properties of interleaved calls (ConcSpec)                              *)
(***************************************************************************)

\* The note update(note_id, title, content) leaves when it runs alone on the
\* note the store starts with and reads the clock at t.
Updated(note_id, title, content, t) ==
  SetUpdatedAt(SetContent(SetTitle(InitNote(note_id), title), content), t)

\* C2: an update and a delete of the same stored note, both returned, leave
\* what one of their two orders leaves: delete has returned True, update
\* the note or None, and the note is not in the store.
C2_Serialized ==
  (/\ pc["U"] = "done" /\ pc["D"] = "done"
   /\ local["U"].note_id = local["D"].note_id)
    => /\ local["D"].ok
       /\ ~DictHas(data, local["D"].note_id)
       /\ data = DictDel(<<1, 2>>, local["D"].note_id)

\* C3: what a get or a list gives its caller to read of a note is the note
\* as it was before the update or as it is after it, never a mix.
C3_NoHalfAppliedUpdate ==
  pc["R"] = "done" =>
    \A i \in DOMAIN local["R"].seen :
      LET s == local["R"].seen[i]
          u == local["U"]
      IN  \/ s = InitNote(s.id)
          \/ /\ u.note_id = s.id
             /\ u.stamp # None
             /\ s = Updated(s.id, u.title, u.content, u.stamp[1])

(***************************************************************************)
(* Properties of the routes (ApiSpec)                                      *)
(***************************************************************************)

\* The store as a call of it can change it.
store == <<data, objs, clock, unused, issued, deleted, last>>

\* C13: every list call the routes make on the store has page >= 1 and
\* page_size within MinPageSize..MaxPageSizeAllowed.
C13_ListContract ==
  (http.method = "GET list" /\ http.called)
    => /\ last.op = "list"
       /\ last.page >= 1
       /\ last.page_size >= MinPageSize
       /\ last.page_size <= MaxPageSizeAllowed

\* C14: a request answered 400 or 422 has not called the store and has left
\* it as it was; a PATCH with no field is answered 400 in this way, whether
\* the id is that of a stored note or not.
C14_ValidationBeforeStore ==
  [][/\ http'.status \in {400, 422}
          => (~http'.called /\ UNCHANGED store)
     /\ \A note_id \in Uuids :
          NoteItem_patch([title |-> None, content |-> None], note_id)
            => (/\ http'.status = 400
                /\ ~http'.called
                /\ UNCHANGED store)]_vars

\* A PATCH of a stored note is answered 400 right after the note was
\* created, before the last tick of the clock.
C14_Witness ==
  /\ http.method = "PATCH" /\ http.status = 400
  /\ DictHas(data, http.note_id)
  /\ last.op = "create" /\ last.note_id = http.note_id
  /\ clock < MaxClock

\* C15: DELETE answers 204 when the store removes the note and 404 when it
\* does not; it answers 204 for a stored note, and once an id was deleted
\* every DELETE and every GET of it answers 404.
C15_DeleteStatus ==
  [][/\ http'.method = "DELETE"
          => LET k == http'.note_id
             IN  /\ http'.status \in {204, 404}
                 /\ http'.status = 204
                      <=> (DictHas(data, k) /\ ~DictHas(data', k)
                           /\ Len(data') = Len(data) - 1)
                 /\ DictHas(data, k) => http'.status = 204
     /\ (http'.method \in {"DELETE", "GET"} /\ http'.note_id \in deleted)
          => http'.status = 404]_vars

\* A second DELETE of an id is answered 404 after another note was created.
C15_Witness ==
  /\ http.method = "DELETE" /\ http.status = 404
  /\ http.note_id \in deleted
  /\ Len(data) = 1

(***************************************************************************)
(* Properties of the order of the notes (OrderSpec)                        *)
(***************************************************************************)

\* The place of key k in d.
Pos(d, k) == CHOOSE i \in DOMAIN d : d[i] = k

\* The notes of d2 come in the order they have in d1.
SameRelativeOrder(d1, d2) ==
  \A i, j \in DOMAIN d2 :
    i < j => (/\ DictHas(d1, d2[i]) /\ DictHas(d1, d2[j])
              /\ Pos(d1, d2[i]) < Pos(d1, d2[j]))

\* list gives the notes in the order of the keys, which is never against
\* the order of created_at: page 1 of a size that holds them all is the
\* whole store, and page p of size s is cut from it.
C16_ListInKeyOrder ==
  /\ LET all == ListResult(1, MaxNotes).items
     IN  /\ Len(all) = Len(data)
         /\ \A i \in DOMAIN all : all[i].id = data[i]
         /\ \A i, j \in DOMAIN all :
              i < j => ParseIso(all[i].created_at) <= ParseIso(all[j].created_at)
  /\ last.op = "list"
       => \A i \in DOMAIN last.ret :
            last.ret[i].id = data[(last.page - 1) * last.page_size + i]

\* A create puts its note last; a successful update leaves every note in
\* its place; a successful delete takes one note out and leaves the others
\* in their order.
C16_Step ==
  /\ last'.op = "create" => data' = Append(data, last'.note_id)
  /\ (last'.op = "update" /\ last'.ok)
       => (/\ Len(data') = Len(data)
           /\ \A i \in DOMAIN data : data'[i] = data[i])
  /\ (last'.op = "delete" /\ last'.ok)
       => (/\ {data'[i] : i \in DOMAIN data'}
                = {data[i] : i \in DOMAIN data} \ {last'.note_id}
           /\ Len(data') = Len(data) - 1
           /\ SameRelativeOrder(data, data'))

\* C16: list returns the notes in the order of their creation, and neither
\* an update nor a delete changes the relative order of the notes.
C16_InsertionOrder == []C16_ListInKeyOrder /\ [][C16_Step]_vars

\* The first of three notes has been updated.
C16_Witness ==
  /\ last.op = "update" /\ last.ok /\ last.title # None
  /\ Len(data) = 3
  /\ last.note_id = data[1]

(***************************************************************************)
(* Properties of the pagination links (ListSpec)                           *)
(***************************************************************************)

RECURSIVE Walk(_, _, _)
\* The pages visited from page on by following next_page, n links at most.
Walk(page, page_size, n) ==
  LET next == ListResult(page, page_size).meta.next_page
  IN  IF next = None \/ n = 0 THEN <<page>>
      ELSE <<page>> \o Walk(next[1], page_size, n - 1)

\* Page page of size page_size has items exactly when it is within
\* total_pages, and a next_page exactly when the page after it has items.
LinksAgree(page, page_size) ==
  LET r == ListResult(page, page_size)
  IN  /\ r.items # << >> <=> page <= r.meta.total_pages
      /\ r.meta.next_page # None
           <=> ListResult(page + 1, page_size).items # << >>

\* The walk from page 1 is 1..total_pages and ends on last_page.
WalkCoversPages(page_size) ==
  LET m == ListResult(1, page_size).meta
      w == Walk(1, page_size, MaxPage)
  IN  /\ w = [i \in 1..m.total_pages |-> i]
      /\ w # << >> /\ w[Len(w)] = m.last_page

\* C17 as stated: the links agree with the contents for every page >= 1 and
\* page_size >= 1, and the walk from page 1 is 1..total_pages, ending on
\* last_page, in every state.
C17_AsStated ==
  \A page_size \in 1..MaxPageSize :
    /\ \A page \in 1..MaxPage : LinksAgree(page, page_size)
    /\ WalkCoversPages(page_size)

\* C17, amended: the links agree with the contents for every page >= 1 and
\* page_size >= 1; the walk from page 1 is 1..total_pages, ending on
\* last_page, when the store is not empty, and is page 1 alone, which is
\* empty and is not last_page = 0, when it is.
C17_LinksAgree ==
  \A page_size \in 1..MaxPageSize :
    /\ \A page \in 1..MaxPage : LinksAgree(page, page_size)
    /\ IF data # << >> THEN WalkCoversPages(page_size)
       ELSE /\ Walk(1, page_size, MaxPage) = <<1>>
            /\ ListResult(1, page_size).items = << >>
            /\ ListResult(1, page_size).meta.last_page = 0

\* The last of three pages has been listed: it has a note and no next_page.
C17_Witness ==
  /\ last.op = "list" /\ last.page = 3 /\ last.page_size = 1
  /\ Len(data) = 3
  /\ last.ret # << >>
  /\ last.meta[1].next_page = None
  /\ last.meta[1].previous_page = Some(2)

(***************************************************************************)
(* Properties of the number of notes (Spec)                                *)
(***************************************************************************)

\* Every note stored before the step other than note_id is stored after it,
\* with the same fields, and nothing else but note_id is stored after it.
OthersUnchanged(note_id) ==
  /\ {data'[i] : i \in DOMAIN data'} \ {note_id}
       = {data[i] : i \in DOMAIN data} \ {note_id}
  /\ \A k \in {data[i] : i \in DOMAIN data} \ {note_id} : objs'[k] = objs[k]

\* The total list reports is the number of notes created minus the number
\* of notes deleted; each id is created once, so these are the numbers of
\* the create calls and of the delete calls that returned True.
C18_Total ==
  /\ ListResult(1, 1).meta.total = Cardinality(issued) - Cardinality(deleted)
  /\ ListResult(1, 1).meta.total = Len(values)

\* A create adds one note, which get returns under the returned id with the
\* title and content given, and a successful delete removes the addressed
\* note; both leave every other note as it was.
C18_Step ==
  /\ last'.op = "create"
       => LET k == last'.note_id
          IN  /\ ~DictHas(data, k) /\ DictHas(data', k)
              /\ Len(data') = Len(data) + 1
              /\ Cardinality(issued') = Cardinality(issued) + 1
              /\ deleted' = deleted
              /\ objs'[k] # None
              /\ objs'[k] = last'.ret
              /\ objs'[k][1].id = k
              /\ Some(objs'[k][1].title) = last'.title
              /\ Some(objs'[k][1].content) = last'.content
              /\ OthersUnchanged(k)
  /\ (last'.op = "delete" /\ last'.ok)
       => LET k == last'.note_id
          IN  /\ DictHas(data, k) /\ ~DictHas(data', k)
              /\ Len(data') = Len(data) - 1
              /\ Cardinality(deleted') = Cardinality(deleted) + 1
              /\ issued' = issued
              /\ OthersUnchanged(k)
  /\ (last'.op = "delete" /\ ~last'.ok)
       => (issued' = issued /\ deleted' = deleted /\ data' = data)

\* C18: the total list reports is the number of create calls minus the
\* number of delete calls that returned True; a create adds exactly one
\* note, got back under its id with the given title and content, a
\* successful delete removes exactly the addressed note, and both leave
\* every other note unchanged.
C18_Accounting == []C18_Total /\ [][C18_Step]_vars

\* A second note has been created beside a stored one that had been
\* updated.
C18_Witness ==
  /\ last.op = "create" /\ last.title = Some("t2") /\ last.content = Some("c1")
  /\ Len(data) = 2 /\ data[2] = last.note_id
  /\ objs[data[1]][1].title = "t1" /\ objs[data[1]][1].content = "c2"
  /\ objs[data[1]][1].updated_at # objs[data[1]][1].created_at
  /\ ListResult(1, 1).meta.total = 2

====
